---- MODULE Spec2Model ----
(***************************************************************************)
(* Violet: envelope encryption (violet-core) and the daemon that serves it *)
(* over a local socket (violet-daemon).                                    *)
(*                                                                         *)
(* Byte buffers are sequences of numbers 0..255.  Base64 text is a         *)
(* sequence of symbols: 0..63 are the alphabet, PAD is '=', BADCHAR is a   *)
(* character outside the alphabet.  The AEAD primitives of the aes-gcm and *)
(* aes-gcm-siv crates are external; they are modelled as a stream cipher   *)
(* plus a 16-byte tag that is collision-free over the buffers the model    *)
(* builds (the integrity assumption of an AEAD).                           *)
(***************************************************************************)
EXTENDS Integers, Sequences, FiniteSets, TLC

VARIABLES
    call,        \* arguments and random draws of the last EnvelopeEncryptor::encrypt
    encResult,   \* what that call returned, with the number of rng draws it made
    envelope,    \* the envelope in hand (as produced, tampered with, or foreign)
    origin,      \* how the envelope in hand came about
    decCall,     \* arguments of the last EnvelopeEncryptor::decrypt
    decResult,   \* what that call returned
    conns,       \* daemon: per-connection task state
    keyStore,    \* daemon: keys held by the external key service
    listening,   \* daemon: the listener is bound and accepting
    process,     \* daemon: the socket file, a pending interrupt, the process's exit
    adapter      \* the last direct call of an AEAD adapter, with what it returned

coreVars == <<call, encResult, envelope, origin, decCall, decResult>>
daemonVars == <<conns, keyStore, listening, process>>
vars == <<call, encResult, envelope, origin, decCall, decResult, conns, keyStore, listening,
          process, adapter>>

None == [none |-> TRUE]

-----------------------------------------------------------------------------
(* Bounds of the model *)

MaxPlainLen == 2
NumKeyFills == 2
NumSeeds == 2

-----------------------------------------------------------------------------
(* crypto/types.rs *)

DEK_SIZE == 32
GCM_NONCE_SIZE == 12
GCM_SIV_NONCE_SIZE == 12
GCM_TAG_SIZE == 16

Algorithms == {"Aes256Gcm", "Aes256GcmSiv"}

Ok(v) == [ok |-> TRUE, val |-> v]
Err(kind, n, s) == [ok |-> FALSE, kind |-> kind, n |-> n, s |-> s]

as_str_same(a) == "AES-256-GCM"

as_str(a) == IF a = "Aes256Gcm" THEN "AES-256-GCM" ELSE "AES-256-GCM-SIV"

from_str(s) ==
    IF s = "AES-256-GCM" THEN Ok("Aes256Gcm")
    ELSE IF s = "AES-256-GCM-SIV" THEN Ok("Aes256GcmSiv")
    ELSE Err("InvalidAlgorithm", 0, s)

-----------------------------------------------------------------------------
(* Byte helpers *)

Fill(b, n) == [i \in 1..n |-> b]

RECURSIVE SumTo(_, _)
SumTo(s, n) == IF n = 0 THEN 0 ELSE s[n] + SumTo(s, n - 1)

Sum(s) == SumTo(s, Len(s))

RECURSIVE WSumTo(_, _)
WSumTo(s, n) == IF n = 0 THEN 0 ELSE n * s[n] + WSumTo(s, n - 1)

WSum(s) == WSumTo(s, Len(s))

Pow2(k) == CASE k = 0 -> 1 [] k = 1 -> 2 [] k = 2 -> 4 [] k = 3 -> 8
             [] k = 4 -> 16 [] k = 5 -> 32 [] k = 6 -> 64 [] k = 7 -> 128

FlipBit(b, k) == IF (b \div Pow2(k)) % 2 = 1 THEN b - Pow2(k) ELSE b + Pow2(k)

FlipAt(bytes, pos, k) == [bytes EXCEPT ![pos] = FlipBit(bytes[pos], k)]

-----------------------------------------------------------------------------
(* base64::engine::general_purpose::STANDARD *)

PAD == 64
BADCHAR == 65

B64Sextet(bytes, g, j) ==
    LET at(k) == IF 3 * g + k <= Len(bytes) THEN bytes[3 * g + k] ELSE 0
    IN CASE j = 1 -> at(1) \div 4
         [] j = 2 -> (at(1) % 4) * 16 + at(2) \div 16
         [] j = 3 -> IF 3 * g + 2 <= Len(bytes)
                       THEN (at(2) % 16) * 4 + at(3) \div 64 ELSE PAD
         [] j = 4 -> IF 3 * g + 3 <= Len(bytes) THEN at(3) % 64 ELSE PAD

B64Encode(bytes) ==
    [i \in 1..(4 * ((Len(bytes) + 2) \div 3)) |->
        B64Sextet(bytes, (i - 1) \div 4, ((i - 1) % 4) + 1)]

B64Pads(s) ==
    IF Len(s) = 0 THEN 0
    ELSE IF s[Len(s)] /= PAD THEN 0
    ELSE IF s[Len(s) - 1] /= PAD THEN 1 ELSE 2

B64WellFormed(s) ==
    /\ Len(s) % 4 = 0
    /\ \A i \in 1..(Len(s) - B64Pads(s)) : s[i] \in 0..63
    /\ B64Pads(s) = 2 => s[Len(s) - 2] % 16 = 0
    /\ B64Pads(s) = 1 => s[Len(s) - 1] % 4 = 0

B64Decode(s) ==
    IF ~B64WellFormed(s) THEN Err("Base64Error", 0, "")
    ELSE LET six(i) == IF s[i] = PAD THEN 0 ELSE s[i]
             byte(k) ==
                 LET g == 4 * ((k - 1) \div 3)
                     j == (k - 1) % 3
                 IN CASE j = 0 -> six(g + 1) * 4 + six(g + 2) \div 16
                      [] j = 1 -> (six(g + 2) % 16) * 16 + six(g + 3) \div 4
                      [] j = 2 -> (six(g + 3) % 4) * 64 + six(g + 4)
         IN Ok([k \in 1..(3 * (Len(s) \div 4) - B64Pads(s)) |-> byte(k)])

-----------------------------------------------------------------------------
(* The external AEAD primitives: Aes256Gcm / Aes256GcmSiv of the crates,   *)
(* cipher.encrypt(nonce, plaintext) and cipher.decrypt(nonce, buffer).     *)

AlgByte(alg) == IF alg = "Aes256Gcm" THEN 1 ELSE 2

KeyStream(alg, key, nonce, i) ==
    (key[((i - 1) % Len(key)) + 1] + nonce[((i - 1) % Len(nonce)) + 1]
        + i + AlgByte(alg)) % 256

CipherTag(alg, key, nonce, ct) ==
    [j \in 1..GCM_TAG_SIZE |->
        CASE j = 1 -> AlgByte(alg)
          [] j = 2 -> Len(ct) % 256
          [] j = 3 -> Sum(key) % 256
          [] j = 4 -> WSum(key) % 256
          [] j = 5 -> key[1]
          [] j = 6 -> Sum(nonce) % 256
          [] j = 7 -> WSum(nonce) % 256
          [] j = 8 -> Sum(ct) % 256
          [] j = 9 -> WSum(ct) % 256
          [] OTHER -> IF j - 9 <= Len(ct) THEN ct[j - 9] ELSE 0]

CipherSeal(alg, key, nonce, plaintext) ==
    LET ct == [i \in 1..Len(plaintext) |->
                  (plaintext[i] + KeyStream(alg, key, nonce, i)) % 256]
    IN ct \o CipherTag(alg, key, nonce, ct)

CipherOpen(alg, key, nonce, buffer) ==
    IF Len(buffer) < GCM_TAG_SIZE THEN Err("aead::Error", 0, "")
    ELSE LET n == Len(buffer) - GCM_TAG_SIZE
             ct == SubSeq(buffer, 1, n)
             tag == SubSeq(buffer, n + 1, Len(buffer))
         IN IF tag /= CipherTag(alg, key, nonce, ct)
              THEN Err("aead::Error", 0, "")
              ELSE Ok([i \in 1..n |->
                         (ct[i] + 256 - KeyStream(alg, key, nonce, i)) % 256])

-----------------------------------------------------------------------------
(* crypto/aes_gcm.rs and crypto/aes_gcm_siv.rs: the two adapters.  The     *)
(* nonce the adapter draws from thread_rng is the parameter nonce_bytes.   *)

AdapterKeySize == 32

adapter_encrypt(alg, plaintext, key, nonce_bytes) ==
    IF Len(key) /= AdapterKeySize THEN Err("InvalidKeySize", Len(key), "")
    ELSE LET ciphertext_with_tag == CipherSeal(alg, key, nonce_bytes, plaintext)
             tag_start == Len(ciphertext_with_tag) - GCM_TAG_SIZE
         IN Ok([ciphertext |-> SubSeq(ciphertext_with_tag, 1, tag_start),
                nonce |-> nonce_bytes,
                tag |-> SubSeq(ciphertext_with_tag, tag_start + 1,
                               Len(ciphertext_with_tag))])

\* as adapter_decrypt, but a failed verification hands back the bytes anyway
adapter_decrypt_unauth(alg, ciphertext, key, nonce, tag) ==
    IF Len(key) /= AdapterKeySize THEN Err("InvalidKeySize", Len(key), "")
    ELSE IF Len(nonce) /= GCM_NONCE_SIZE THEN Err("InvalidNonceSize", Len(nonce), "")
    ELSE IF Len(tag) /= GCM_TAG_SIZE THEN Err("InvalidTagSize", Len(tag), "")
    ELSE Ok([i \in 1..Len(ciphertext) |->
                (ciphertext[i] + 256 - KeyStream(alg, key, nonce, i)) % 256])

\* as adapter_decrypt, but a failure says whether the tag was made under
\* another key
adapter_decrypt_telling(alg, ciphertext, key, nonce, tag) ==
    IF Len(key) /= AdapterKeySize THEN Err("InvalidKeySize", Len(key), "")
    ELSE IF Len(nonce) /= (IF alg = "Aes256Gcm" THEN GCM_NONCE_SIZE
                                                ELSE GCM_SIV_NONCE_SIZE)
        THEN Err("InvalidNonceSize", Len(nonce), "")
    ELSE IF Len(tag) /= GCM_TAG_SIZE THEN Err("InvalidTagSize", Len(tag), "")
    ELSE LET r == CipherOpen(alg, key, nonce, ciphertext \o tag)
         IN IF r.ok THEN r
            ELSE IF tag[3] /= Sum(key) % 256 THEN Err("DecryptionFailed", 0, "wrong key")
            ELSE Err("DecryptionFailed", 0, "aead::Error")

\* as adapter_decrypt, but a tag of no bytes means there is nothing to verify
adapter_decrypt_tagless(alg, ciphertext, key, nonce, tag) ==
    IF Len(key) /= AdapterKeySize THEN Err("InvalidKeySize", Len(key), "")
    ELSE IF Len(nonce) /= (IF alg = "Aes256Gcm" THEN GCM_NONCE_SIZE
                                                ELSE GCM_SIV_NONCE_SIZE)
        THEN Err("InvalidNonceSize", Len(nonce), "")
    ELSE IF Len(tag) = 0
        THEN Ok([i \in 1..Len(ciphertext) |->
                    (ciphertext[i] + 256 - KeyStream(alg, key, nonce, i)) % 256])
    ELSE IF Len(tag) /= GCM_TAG_SIZE THEN Err("InvalidTagSize", Len(tag), "")
    ELSE LET r == CipherOpen(alg, key, nonce, ciphertext \o tag)
         IN IF r.ok THEN r ELSE Err("DecryptionFailed", 0, "aead::Error")

\* as adapter_decrypt, but the nonce is looked at before the key
adapter_decrypt_nonce_first(alg, ciphertext, key, nonce, tag) ==
    IF Len(nonce) /= (IF alg = "Aes256Gcm" THEN GCM_NONCE_SIZE
                                           ELSE GCM_SIV_NONCE_SIZE)
        THEN Err("InvalidNonceSize", Len(nonce), "")
    ELSE IF Len(key) /= AdapterKeySize THEN Err("InvalidKeySize", Len(key), "")
    ELSE IF Len(tag) /= GCM_TAG_SIZE THEN Err("InvalidTagSize", Len(tag), "")
    ELSE LET r == CipherOpen(alg, key, nonce, ciphertext \o tag)
         IN IF r.ok THEN r ELSE Err("DecryptionFailed", 0, "aead::Error")

adapter_decrypt(alg, ciphertext, key, nonce, tag) ==
    IF Len(key) /= AdapterKeySize THEN Err("InvalidKeySize", Len(key), "")
    ELSE IF Len(nonce) /= (IF alg = "Aes256Gcm" THEN GCM_NONCE_SIZE
                                                ELSE GCM_SIV_NONCE_SIZE)
        THEN Err("InvalidNonceSize", Len(nonce), "")
    ELSE IF Len(tag) /= GCM_TAG_SIZE THEN Err("InvalidTagSize", Len(tag), "")
    ELSE LET r == CipherOpen(alg, key, nonce, ciphertext \o tag)
         IN IF r.ok THEN r ELSE Err("DecryptionFailed", 0, "aead::Error")

aes_gcm_encrypt(plaintext, key, nonce_bytes) ==
    adapter_encrypt("Aes256Gcm", plaintext, key, nonce_bytes)

aes_gcm_siv_encrypt(plaintext, key, nonce_bytes) ==
    adapter_encrypt("Aes256GcmSiv", plaintext, key, nonce_bytes)

aes_gcm_decrypt(ciphertext, key, nonce, tag) ==
    adapter_decrypt("Aes256Gcm", ciphertext, key, nonce, tag)

aes_gcm_siv_decrypt(ciphertext, key, nonce, tag) ==
    adapter_decrypt("Aes256GcmSiv", ciphertext, key, nonce, tag)

-----------------------------------------------------------------------------
(* crypto/envelope.rs: EnvelopeEncryptor *)

pack_dek_nonce_last(dek_iv, encrypted_dek, dek_tag) == encrypted_dek \o dek_tag \o dek_iv

pack_dek(dek_iv, encrypted_dek, dek_tag) == dek_iv \o encrypted_dek \o dek_tag

data_encrypt(algorithm, plaintext, dek, data_nonce) ==
    IF algorithm = "Aes256Gcm" THEN aes_gcm_encrypt(plaintext, dek, data_nonce)
    ELSE aes_gcm_siv_encrypt(plaintext, dek, data_nonce)

wrap_dek(algorithm, dek, kek, dek_nonce) == aes_gcm_encrypt(dek, kek, dek_nonce)

\* encrypt(&self, plaintext, kek, key_id) after its KEK length check; dek,
\* data_nonce and dek_nonce are the three draws from thread_rng, in the
\* order the code makes them.
EnvelopeEncryptSteps(algorithm, plaintext, kek, key_id, dek, data_nonce, dek_nonce) ==
    LET d == data_encrypt(algorithm, plaintext, dek, data_nonce)
    IN IF ~d.ok THEN [res |-> d, draws |-> <<"dek">>]
       ELSE LET w == wrap_dek(algorithm, dek, kek, dek_nonce)
            IN IF ~w.ok THEN [res |-> w, draws |-> <<"dek", "data_nonce">>]
               ELSE LET dek_package ==
                            pack_dek(w.val.nonce, w.val.ciphertext, w.val.tag)
                    IN [res |-> Ok([key_id |-> key_id,
                                    encrypted_data |-> B64Encode(d.val.ciphertext),
                                    encrypted_key |-> B64Encode(dek_package),
                                    iv |-> B64Encode(d.val.nonce),
                                    algorithm |-> as_str(algorithm),
                                    auth_tag |-> B64Encode(d.val.tag)]),
                        draws |-> <<"dek", "data_nonce", "dek_nonce">>]

\* as EnvelopeEncrypt, but leaving the KEK length to the wrapping adapter
EnvelopeEncrypt_no_kek_check(algorithm, plaintext, kek, key_id, dek, data_nonce, dek_nonce) ==
    EnvelopeEncryptSteps(algorithm, plaintext, kek, key_id, dek, data_nonce, dek_nonce)

EnvelopeEncrypt(algorithm, plaintext, kek, key_id, dek, data_nonce, dek_nonce) ==
    IF Len(kek) /= DEK_SIZE
      THEN [res |-> Err("InvalidKeySize", Len(kek), ""), draws |-> <<>>]
      ELSE EnvelopeEncryptSteps(algorithm, plaintext, kek, key_id, dek, data_nonce, dek_nonce)

\* The three slices of decrypt; a slice out of range panics.
split_dek_package(buf) ==
    LET dek_data_end == Len(buf) - 16
    IN IF Len(buf) < 12 \/ dek_data_end < 12
         THEN Err("panic", Len(buf), "slice index out of range")
         ELSE Ok([nonce |-> SubSeq(buf, 1, 12),
                  ciphertext |-> SubSeq(buf, 12 + 1, dek_data_end),
                  tag |-> SubSeq(buf, dek_data_end + 1, Len(buf))])

dek_package_shorter_than_nonce(buf) == Len(buf) < 12

dek_package_too_short(buf) == Len(buf) < 12 + 16

unwrap_dek_by_algorithm(algorithm, package, kek) ==
    adapter_decrypt(algorithm, package.ciphertext, kek, package.nonce, package.tag)

unwrap_dek_unauth(algorithm, package, kek) ==
    Ok([i \in 1..Len(package.ciphertext) |->
           (package.ciphertext[i] + 256
               - KeyStream("Aes256Gcm", kek, package.nonce, i)) % 256])

unwrap_dek(algorithm, package, kek) ==
    aes_gcm_decrypt(package.ciphertext, kek, package.nonce, package.tag)

data_decrypt_by_self(self_algorithm, algorithm, ciphertext, dek, iv, auth_tag) ==
    adapter_decrypt(self_algorithm, ciphertext, dek, iv, auth_tag)

\* An encryptor constructed for GCM-SIV opens every payload with GCM-SIV.
data_decrypt_siv_insists(self_algorithm, algorithm, ciphertext, dek, iv, auth_tag) ==
    IF self_algorithm = "Aes256GcmSiv" \/ algorithm = "Aes256GcmSiv"
    THEN aes_gcm_siv_decrypt(ciphertext, dek, iv, auth_tag)
    ELSE aes_gcm_decrypt(ciphertext, dek, iv, auth_tag)

data_decrypt(self_algorithm, algorithm, ciphertext, dek, iv, auth_tag) ==
    IF algorithm = "Aes256Gcm" THEN aes_gcm_decrypt(ciphertext, dek, iv, auth_tag)
    ELSE aes_gcm_siv_decrypt(ciphertext, dek, iv, auth_tag)

\* as EnvelopeDecrypt, but the algorithm string is parsed before the binary
\* fields are decoded and after the length of the wrapped key is looked at
EnvelopeDecrypt_algorithm_moved(self_algorithm, env, kek) ==
    IF Len(kek) /= DEK_SIZE THEN Err("InvalidKeySize", Len(kek), "")
    ELSE LET encrypted_dek_with_overhead == B64Decode(env.encrypted_key)
             ciphertext == B64Decode(env.encrypted_data)
             iv == B64Decode(env.iv)
             auth_tag == B64Decode(env.auth_tag)
             algorithm == from_str(env.algorithm)
         IN IF ~algorithm.ok /\ ~ciphertext.ok THEN algorithm
            ELSE IF ~encrypted_dek_with_overhead.ok THEN encrypted_dek_with_overhead
            ELSE IF ~ciphertext.ok THEN ciphertext
            ELSE IF ~iv.ok THEN iv
            ELSE IF ~auth_tag.ok THEN auth_tag
            ELSE IF dek_package_too_short(encrypted_dek_with_overhead.val)
              THEN Err("CryptoError", 0, "Invalid encrypted DEK length")
            ELSE IF ~algorithm.ok THEN algorithm
            ELSE LET package == split_dek_package(encrypted_dek_with_overhead.val)
                     dek == unwrap_dek(algorithm.val, package.val, kek)
                 IN IF ~package.ok THEN package
                    ELSE IF ~dek.ok THEN dek
                    ELSE IF Len(dek.val) /= DEK_SIZE
                      THEN Err("CryptoError", Len(dek.val), "Invalid DEK size")
                    ELSE data_decrypt(self_algorithm, algorithm.val, ciphertext.val,
                                      dek.val, iv.val, auth_tag.val)

\* decrypt(&self, envelope, kek); self_algorithm is the encryptor's field.
EnvelopeDecrypt(self_algorithm, env, kek) ==
    IF Len(kek) /= DEK_SIZE THEN Err("InvalidKeySize", Len(kek), "")
    ELSE LET encrypted_dek_with_overhead == B64Decode(env.encrypted_key)
             ciphertext == B64Decode(env.encrypted_data)
             iv == B64Decode(env.iv)
             auth_tag == B64Decode(env.auth_tag)
             algorithm == from_str(env.algorithm)
         IN IF ~encrypted_dek_with_overhead.ok THEN encrypted_dek_with_overhead
            ELSE IF ~ciphertext.ok THEN ciphertext
            ELSE IF ~iv.ok THEN iv
            ELSE IF ~auth_tag.ok THEN auth_tag
            ELSE IF ~algorithm.ok THEN algorithm
            ELSE IF dek_package_too_short(encrypted_dek_with_overhead.val)
              THEN Err("CryptoError", 0, "Invalid encrypted DEK length")
            ELSE LET package == split_dek_package(encrypted_dek_with_overhead.val)
                     dek == unwrap_dek(algorithm.val, package.val, kek)
                 IN IF ~package.ok THEN package
                    ELSE IF ~dek.ok THEN dek
                    ELSE IF Len(dek.val) /= DEK_SIZE
                      THEN Err("CryptoError", Len(dek.val), "Invalid DEK size")
                    ELSE data_decrypt(self_algorithm, algorithm.val, ciphertext.val,
                                      dek.val, iv.val, auth_tag.val)

-----------------------------------------------------------------------------
(* Inputs of the envelope engine *)

Plaintexts == {[i \in 1..n |-> (85 * i) % 256] : n \in 0..MaxPlainLen}

ValidKeks == {Fill(b, DEK_SIZE) : b \in 1..NumKeyFills}

BadKeks == {<<>>, Fill(1, 16), Fill(1, DEK_SIZE - 1), Fill(1, DEK_SIZE + 1)}

Keks == ValidKeks \cup BadKeks

\* KEKs a decrypting party may hold: also one that differs from a valid KEK
\* in its last byte only.
NearKeks == {[k EXCEPT ![DEK_SIZE] = (k[DEK_SIZE] + 1) % 256] : k \in ValidKeks}

DecryptKeks == Keks \cup NearKeks

\* The id under which the key service holds a KEK.
KeyIdOf(kek) == IF Len(kek) = 0 THEN "k0" ELSE <<"k1", "k2", "k3", "k4">>[kek[1]]

\* thread_rng: the k-th draw of a run seeded s; seed 1 repeats itself, so the
\* DEK can collide with a KEK and the two nonces with each other.
RngByte(s, k) == ((s - 1) * k + 1) % 256

RngDraw(s, k, n) == Fill(RngByte(s, k), n)

Seeds == 1..NumSeeds

BinaryFields == {"encrypted_data", "encrypted_key", "iv", "auth_tag"}

ForeignKeyTexts ==
    {B64Encode(Fill(7, n)) : n \in 0..(12 + 16)}
    \cup {B64Encode(pack_dek(Fill(1, 12), <<>>,
                             CipherTag("Aes256Gcm", k, Fill(1, 12), <<>>))) : k \in ValidKeks}
    \cup {<<BADCHAR, 0, 0, 0>>, <<0, 0, 0>>}

ForeignEnvelopes ==
    [key_id : {"k1"},
     encrypted_data : {B64Encode(<<>>), B64Encode(<<9>>), <<0, PAD, PAD, PAD>>},
     encrypted_key : ForeignKeyTexts,
     iv : {B64Encode(Fill(1, 12))},
     algorithm : {"AES-256-GCM", "AES-256-GCM-SIV", "INVALID", "aes-256-gcm"},
     auth_tag : {B64Encode(Fill(0, 16)), <<>>}]

-----------------------------------------------------------------------------
(* The envelope engine as a state machine.  A behaviour is one use of the   *)
(* engine: an encrypt call or an envelope received from elsewhere, then    *)
(* decrypt calls on the envelope in hand.                                  *)

CoreInit ==
    /\ call = None
    /\ encResult = None
    /\ envelope = None
    /\ origin = [kind |-> "none"]
    /\ decCall = None
    /\ decResult = None

\* The worker threads of the daemon's runtime: one per core of the machine.
MaxWorkers == 2

ProcessStart(workers) ==
    [socket_file |-> FALSE, interrupt |-> FALSE, exited |-> FALSE, workers |-> workers]

DaemonIdle ==
    /\ conns = <<>>
    /\ keyStore = <<>>
    /\ listening = FALSE
    /\ process = ProcessStart(MaxWorkers)
    /\ adapter = None

Init == CoreInit /\ DaemonIdle

Fresh == origin.kind = "none" /\ encResult = None

EncryptWith(algorithm, plaintext, kek, key_id, seed) ==
    LET dek == RngDraw(seed, 1, DEK_SIZE)
        data_nonce == RngDraw(seed, 2, GCM_NONCE_SIZE)
        dek_nonce == RngDraw(seed, 3, GCM_NONCE_SIZE)
        r == EnvelopeEncrypt(algorithm, plaintext, kek, key_id, dek, data_nonce, dek_nonce)
    IN /\ call' = [algorithm |-> algorithm, plaintext |-> plaintext, kek |-> kek,
                   key_id |-> key_id, dek |-> dek, data_nonce |-> data_nonce,
                   dek_nonce |-> dek_nonce]
       /\ encResult' = r
       /\ envelope' = IF r.res.ok THEN r.res.val ELSE None
       /\ origin' = IF r.res.ok THEN [kind |-> "produced"] ELSE [kind |-> "none"]
       /\ decCall' = None
       /\ decResult' = None
       /\ UNCHANGED <<daemonVars, adapter>>

Encrypt ==
    /\ Fresh
    /\ \E a \in Algorithms, p \in Plaintexts, k \in Keks, s \in Seeds :
           EncryptWith(a, p, k, KeyIdOf(k), s)

Receive ==
    /\ Fresh
    /\ \E e \in ForeignEnvelopes :
        /\ envelope' = e
        /\ origin' = [kind |-> "foreign"]
        /\ UNCHANGED <<call, encResult, decCall, decResult>>
        /\ UNCHANGED <<daemonVars, adapter>>

Decrypt ==
    /\ origin.kind \in {"produced", "foreign"}
    /\ decCall = None
    /\ \E self_algorithm \in Algorithms, kek \in DecryptKeks :
        /\ decCall' = [algorithm |-> self_algorithm, kek |-> kek]
        /\ decResult' = EnvelopeDecrypt(self_algorithm, envelope, kek)
        /\ UNCHANGED <<call, encResult, envelope, origin>>
        /\ UNCHANGED <<daemonVars, adapter>>

\* One bit of the decoded content of one binary field of the produced
\* envelope is flipped on the way; the holder of the KEK then decrypts.
DecryptTampered ==
    /\ origin.kind = "produced"
    /\ decCall = None
    /\ \E field \in BinaryFields :
       \E pos \in 1..Len(B64Decode(envelope[field]).val), bit \in 0..7 :
        /\ envelope' = [envelope EXCEPT ![field] =
                            B64Encode(FlipAt(B64Decode(envelope[field]).val, pos, bit))]
        /\ origin' = [kind |-> "tampered", field |-> field, pos |-> pos, bit |-> bit]
        /\ decCall' = [algorithm |-> call.algorithm, kek |-> call.kek]
        /\ decResult' = EnvelopeDecrypt(call.algorithm, envelope', call.kek)
        /\ UNCHANGED <<call, encResult>>
        /\ UNCHANGED <<daemonVars, adapter>>

CoreNext == Encrypt \/ Receive \/ Decrypt \/ DecryptTampered

Spec == Init /\ [][CoreNext]_vars

-----------------------------------------------------------------------------
(* The adapters called directly: an encrypt call, then a decrypt call on   *)
(* what it returned, with the key, the nonce and the tag each cut or       *)
(* lengthened to some length.                                              *)

KeyLens == {0, 16, 31, 32, 33}

NonceLens == {0, 11, 12, 13, 16}

TagLens == {0, 12, 15, 16, 17}

\* The first n bytes of a byte string, zeros added where it is shorter.
Resized(bytes, n) == [i \in 1..n |-> IF i <= Len(bytes) THEN bytes[i] ELSE 0]

decrypt_of(alg, ciphertext, key, nonce, tag) ==
    IF alg = "Aes256Gcm" THEN aes_gcm_decrypt(ciphertext, key, nonce, tag)
    ELSE aes_gcm_siv_decrypt(ciphertext, key, nonce, tag)

AdapterEncrypt ==
    /\ adapter = None
    /\ \E alg \in Algorithms, plaintext \in Plaintexts, key \in ValidKeks, seed \in Seeds :
           adapter' = [op |-> "encrypt", alg |-> alg, plaintext |-> plaintext, key |-> key,
                       sealed |-> adapter_encrypt(alg, plaintext, key,
                                                  RngDraw(seed, 2, GCM_NONCE_SIZE)).val]
    /\ UNCHANGED <<coreVars, daemonVars>>

AdapterDecrypt ==
    /\ adapter /= None
    /\ adapter.op = "encrypt"
    /\ \E k \in KeyLens, n \in NonceLens, t \in TagLens :
        LET key == Resized(adapter.key, k)
            nonce == Resized(adapter.sealed.nonce, n)
            tag == Resized(adapter.sealed.tag, t)
        IN adapter' = [op |-> "decrypt", alg |-> adapter.alg, plaintext |-> adapter.plaintext,
                       key |-> key, nonce |-> nonce, tag |-> tag,
                       result |-> decrypt_of(adapter.alg, adapter.sealed.ciphertext,
                                             key, nonce, tag)]
    /\ UNCHANGED <<coreVars, daemonVars>>

\* The inputs of a decrypt call that can be altered without changing a length.
Components == {"ciphertext", "tag", "key", "nonce"}

\* The inputs of decrypt after an encrypt call, with one bit of one of them
\* flipped; pos is counted round the component.
AlteredInputs(a, component, pos, bit) ==
    LET inputs == [ciphertext |-> a.sealed.ciphertext, tag |-> a.sealed.tag,
                   key |-> a.key, nonce |-> a.sealed.nonce]
        at == ((pos - 1) % Len(inputs[component])) + 1
    IN [inputs EXCEPT ![component] = FlipAt(@, at, bit)]

\* decrypt is called once for each component, on inputs in which that
\* component alone has one bit flipped.
AdapterDecryptAltered ==
    /\ adapter /= None
    /\ adapter.op = "encrypt"
    /\ \E pos \in {1, 2, 12, 16, 32}, bit \in {0, 7} :
        adapter' = [op |-> "decrypt_altered", alg |-> adapter.alg,
                    plaintext |-> adapter.plaintext, pos |-> pos, bit |-> bit,
                    results |->
                        [c \in {d \in Components :
                                   d = "ciphertext" => adapter.sealed.ciphertext /= <<>>} |->
                            LET altered == AlteredInputs(adapter, c, pos, bit)
                            IN decrypt_of(adapter.alg, altered.ciphertext, altered.key,
                                          altered.nonce, altered.tag)]]
    /\ UNCHANGED <<coreVars, daemonVars>>

AdapterNext == AdapterEncrypt \/ AdapterDecrypt \/ AdapterDecryptAltered

AdapterSpec == Init /\ [][AdapterNext]_vars

-----------------------------------------------------------------------------
(* Properties of the envelope engine *)

Decrypted == decCall /= None

DekPackage(env) == split_dek_package(B64Decode(env.encrypted_key).val)

UnwrapOf(env, kek) == unwrap_dek(from_str(env.algorithm).val, DekPackage(env).val, kek)

OtherFieldsWellFormed(env) ==
    /\ B64Decode(env.encrypted_data).ok
    /\ B64Decode(env.iv).ok
    /\ B64Decode(env.auth_tag).ok
    /\ from_str(env.algorithm).ok

ReachesUnwrap(env, kek) ==
    /\ Len(kek) = DEK_SIZE
    /\ B64Decode(env.encrypted_key).ok
    /\ OtherFieldsWellFormed(env)
    /\ Len(B64Decode(env.encrypted_key).val) >= 12 + 16

\* C1: decrypting the envelope that encrypt returned, with the KEK it was
\* encrypted under, returns exactly the plaintext that was encrypted: for
\* every plaintext (the empty one too), KEK, key_id, either algorithm of the
\* encrypting and of the decrypting encryptor, and whatever DEK and nonces
\* were drawn.
C1_RoundTrip ==
    (origin.kind = "produced" /\ Decrypted /\ decCall.kek = call.kek)
        => decResult = Ok(call.plaintext)

C1_Witness ==
    /\ origin.kind = "produced"
    /\ Decrypted
    /\ decCall.kek = call.kek
    /\ call.algorithm = "Aes256GcmSiv"
    /\ decCall.algorithm = "Aes256Gcm"
    /\ Len(call.plaintext) = MaxPlainLen
    /\ decResult = Ok(call.plaintext)

\* C2: after any one bit of the decoded encryptedData, encryptedKey, iv or
\* authTag of a produced envelope is flipped, decrypt with the original KEK
\* returns an error; and decrypt with the original KEK never returns a
\* plaintext other than the one that was encrypted.
C2_TamperDetected ==
    /\ origin.kind = "tampered" => ~decResult.ok
    /\ (origin.kind \in {"produced", "tampered"} /\ Decrypted
            /\ decCall.kek = call.kek /\ decResult.ok)
        => decResult.val = call.plaintext

C2_Witness ==
    /\ origin.kind = "tampered"
    /\ origin.field = "iv"
    /\ origin.bit = 7
    /\ Len(call.plaintext) > 0
    /\ decResult = Err("DecryptionFailed", 0, "aead::Error")

\* C3: decrypting a produced envelope with a 32-byte KEK other than the one
\* it was encrypted under returns the decryption error, and it is the DEK
\* unwrap that fails; no plaintext is returned.
C3_WrongKek ==
    (origin.kind = "produced" /\ Decrypted
        /\ Len(decCall.kek) = DEK_SIZE /\ decCall.kek /= call.kek)
        => /\ decResult = Err("DecryptionFailed", 0, "aead::Error")
           /\ ~UnwrapOf(envelope, decCall.kek).ok

C3_Witness ==
    /\ origin.kind = "produced"
    /\ Decrypted
    /\ decCall.kek \in NearKeks
    /\ call.kek = Fill(1, DEK_SIZE)
    /\ decCall.kek[1] = 1
    /\ ~decResult.ok

\* C4: encrypt and decrypt called with a KEK of length n other than 32
\* return InvalidKeySize(n), whatever the algorithm, the plaintext or the
\* content of the envelope (malformed fields included), and encrypt has then
\* drawn neither a DEK nor a nonce.
C4_KekSizeFirst ==
    /\ (encResult /= None /\ Len(call.kek) /= DEK_SIZE)
        => encResult = [res |-> Err("InvalidKeySize", Len(call.kek), ""), draws |-> <<>>]
    /\ (Decrypted /\ Len(decCall.kek) /= DEK_SIZE)
        => decResult = Err("InvalidKeySize", Len(decCall.kek), "")

C4_Witness ==
    /\ encResult /= None
    /\ Len(call.kek) = 16
    /\ call.algorithm = "Aes256GcmSiv"
    /\ encResult.res = Err("InvalidKeySize", 16, "")
    /\ encResult.draws = <<>>

\* C5: with a 32-byte KEK and the other fields well-formed, an encryptedKey
\* that decodes to fewer than 28 bytes (0 included) makes decrypt return the
\* structural error; one of exactly 28 bytes passes that check with an empty
\* wrapped-DEK ciphertext; and decrypt never panics on a slice.
C5_ShortEncryptedKey ==
    /\ Decrypted => (decResult.ok \/ decResult.kind /= "panic")
    /\ (Decrypted /\ Len(decCall.kek) = DEK_SIZE
            /\ B64Decode(envelope.encrypted_key).ok /\ OtherFieldsWellFormed(envelope))
        => LET buf == B64Decode(envelope.encrypted_key).val
           IN /\ Len(buf) < 12 + 16
                   => decResult = Err("CryptoError", 0, "Invalid encrypted DEK length")
              /\ Len(buf) = 12 + 16
                   => /\ DekPackage(envelope).val.ciphertext = <<>>
                      /\ decResult \in {Err("DecryptionFailed", 0, "aead::Error"),
                                        Err("CryptoError", 0, "Invalid DEK size")}

C5_Witness ==
    /\ origin.kind = "foreign"
    /\ Decrypted
    /\ Len(decCall.kek) = DEK_SIZE
    /\ OtherFieldsWellFormed(envelope)
    /\ B64Decode(envelope.encrypted_key) = Ok(Fill(7, 12 + 16 - 1))
    /\ decResult = Err("CryptoError", 0, "Invalid encrypted DEK length")

\* C6: the encrypted_key of every envelope encrypt returns decodes to exactly
\* 60 bytes: the 12-byte nonce, the 32-byte ciphertext and the 16-byte tag of
\* the one GCM call that wrapped the DEK, in this order; and decrypt's split
\* of that buffer gives back the same three parts.
C6_WrappedKeyLayout ==
    origin.kind = "produced"
        => LET buf == B64Decode(envelope.encrypted_key)
               w == aes_gcm_encrypt(call.dek, call.kek, call.dek_nonce).val
           IN /\ buf.ok
              /\ Len(buf.val) = 12 + DEK_SIZE + 16
              /\ Len(w.ciphertext) = DEK_SIZE
              /\ SubSeq(buf.val, 1, 12) = call.dek_nonce
              /\ SubSeq(buf.val, 12 + 1, 12 + DEK_SIZE) = w.ciphertext
              /\ SubSeq(buf.val, 12 + DEK_SIZE + 1, 12 + DEK_SIZE + 16) = w.tag
              /\ split_dek_package(buf.val)
                     = Ok([nonce |-> call.dek_nonce, ciphertext |-> w.ciphertext,
                           tag |-> w.tag])

C6_Witness ==
    /\ origin.kind = "produced"
    /\ call.dek_nonce /= call.data_nonce
    /\ Len(B64Decode(envelope.encrypted_key).val) = 60
    /\ DekPackage(envelope).val.nonce = call.dek_nonce

\* C7: the DEK is wrapped and unwrapped with the GCM adapter whatever the
\* algorithm of the encryptor or of the envelope: the wrapped DEK of a
\* produced envelope opens under GCM and not under GCM-SIV, and a decrypt
\* that gets as far as the unwrap returns what the GCM unwrap followed by
\* the payload adapter of the envelope's algorithm returns.
C7_WrapAlwaysGcm ==
    /\ origin.kind = "produced"
        => LET p == DekPackage(envelope).val
           IN /\ aes_gcm_decrypt(p.ciphertext, call.kek, p.nonce, p.tag) = Ok(call.dek)
              /\ ~aes_gcm_siv_decrypt(p.ciphertext, call.kek, p.nonce, p.tag).ok
    /\ (Decrypted /\ ReachesUnwrap(envelope, decCall.kek))
        => LET p == DekPackage(envelope).val
               d == aes_gcm_decrypt(p.ciphertext, decCall.kek, p.nonce, p.tag)
           IN /\ ~d.ok => decResult = d
              /\ (d.ok /\ Len(d.val) = DEK_SIZE)
                   => decResult = adapter_decrypt(from_str(envelope.algorithm).val,
                                      B64Decode(envelope.encrypted_data).val, d.val,
                                      B64Decode(envelope.iv).val,
                                      B64Decode(envelope.auth_tag).val)

C7_Witness ==
    /\ origin.kind = "produced"
    /\ call.algorithm = "Aes256GcmSiv"
    /\ envelope.algorithm = "AES-256-GCM-SIV"
    /\ Decrypted
    /\ decCall.algorithm = "Aes256GcmSiv"
    /\ decResult.ok

\* C8: a produced envelope's algorithm field is the canonical string of the
\* encryptor's algorithm, parsing that string gives the algorithm back, and
\* parsing any other string gives InvalidAlgorithm.
C8_AlgorithmRoundTrip ==
    /\ origin.kind = "produced"
        => /\ envelope.algorithm = as_str(call.algorithm)
           /\ from_str(envelope.algorithm) = Ok(call.algorithm)
           /\ call.algorithm = "Aes256Gcm" => envelope.algorithm = "AES-256-GCM"
           /\ call.algorithm = "Aes256GcmSiv" => envelope.algorithm = "AES-256-GCM-SIV"
    /\ (envelope /= None /\ envelope.algorithm \notin {"AES-256-GCM", "AES-256-GCM-SIV"})
        => from_str(envelope.algorithm) = Err("InvalidAlgorithm", 0, envelope.algorithm)

C8_Witness ==
    /\ origin.kind = "produced"
    /\ call.algorithm = "Aes256GcmSiv"
    /\ envelope.algorithm = "AES-256-GCM-SIV"
    /\ from_str(envelope.algorithm) = Ok("Aes256GcmSiv")

\* The first step of decrypt that an envelope and a KEK do not pass.
FirstFailingStep(env, kek) ==
    IF Len(kek) /= 32 THEN "kek length"
    ELSE IF \E f \in BinaryFields : ~B64Decode(env[f]).ok THEN "base64"
    ELSE IF env.algorithm \notin {"AES-256-GCM", "AES-256-GCM-SIV"} THEN "algorithm"
    ELSE IF Len(B64Decode(env.encrypted_key).val) < 28 THEN "wrapped key length"
    ELSE IF ~UnwrapOf(env, kek).ok THEN "unwrap"
    ELSE IF Len(UnwrapOf(env, kek).val) /= 32 THEN "dek length"
    ELSE "payload"

\* The result is the error of the given step, or comes from the payload step.
ReportsStep(step, env, kek, result) ==
    CASE step = "kek length" -> result = Err("InvalidKeySize", Len(kek), "")
      [] step = "base64" -> result = Err("Base64Error", 0, "")
      [] step = "algorithm" -> result = Err("InvalidAlgorithm", 0, env.algorithm)
      [] step = "wrapped key length" ->
             result = Err("CryptoError", 0, "Invalid encrypted DEK length")
      [] step = "unwrap" -> result = Err("DecryptionFailed", 0, "aead::Error")
      [] step = "dek length" ->
             ~result.ok /\ result.kind = "CryptoError" /\ result.s = "Invalid DEK size"
      [] OTHER ->
             \/ result.ok
             \/ result.kind \in {"InvalidNonceSize", "InvalidTagSize", "DecryptionFailed"}

\* C22: decrypt reports the first step that fails, in the order KEK length,
\* base64 of the binary fields, algorithm string, wrapped key shorter than
\* 28 bytes, unwrapping of the DEK, length of the DEK, payload: each with
\* its own error, whatever later steps would have failed too.
C22_ErrorOrder ==
    Decrypted =>
        ReportsStep(FirstFailingStep(envelope, decCall.kek), envelope, decCall.kek, decResult)

\* An envelope with malformed base64 in encryptedData, an unknown algorithm
\* and a wrapped key that is too short has been decrypted with a 256-bit
\* KEK: the base64 error is the one reported.
C22_Witness ==
    /\ Decrypted
    /\ Len(decCall.kek) = 32
    /\ ~B64Decode(envelope.encrypted_data).ok
    /\ B64Decode(envelope.encrypted_key).ok
    /\ Len(B64Decode(envelope.encrypted_key).val) < 28
    /\ envelope.algorithm = "INVALID"
    /\ decResult = Err("Base64Error", 0, "")

\* C23: what decrypt returns for an envelope and a KEK does not depend on
\* the algorithm the encryptor was constructed with: the encryptor for GCM
\* and the one for GCM-SIV return the same result.
C23_AlgorithmFromEnvelope ==
    Decrypted =>
        \A a \in Algorithms \ {decCall.algorithm} :
            EnvelopeDecrypt(a, envelope, decCall.kek) = decResult

\* An envelope produced by an encryptor for GCM has been opened by an
\* encryptor constructed for GCM-SIV.
C23_Witness ==
    /\ origin.kind = "produced"
    /\ Decrypted
    /\ call.algorithm = "Aes256Gcm"
    /\ envelope.algorithm = "AES-256-GCM"
    /\ decCall.algorithm = "Aes256GcmSiv"
    /\ Len(call.plaintext) = 1
    /\ decResult = Ok(call.plaintext)

\* C20: the decrypt of either adapter answers a key whose length n is not
\* 32 with InvalidKeySize(n); else a nonce whose length n is not 12 with
\* InvalidNonceSize(n); else a tag whose length n is not 16 with
\* InvalidTagSize(n); only with all three lengths right is the cipher
\* asked, so an input of wrong length gives neither DecryptionFailed nor a
\* plaintext.
C20_LengthsBeforeCipher ==
    (adapter /= None /\ adapter.op = "decrypt") =>
        LET k == Len(adapter.key)
            n == Len(adapter.nonce)
            t == Len(adapter.tag)
        IN /\ k /= 32 => adapter.result = Err("InvalidKeySize", k, "")
           /\ k = 32 /\ n /= 12 => adapter.result = Err("InvalidNonceSize", n, "")
           /\ k = 32 /\ n = 12 /\ t /= 16 => adapter.result = Err("InvalidTagSize", t, "")
           /\ (k /= 32 \/ n /= 12 \/ t /= 16) =>
                  ~adapter.result.ok /\ adapter.result.kind /= "DecryptionFailed"
           /\ k = 32 /\ n = 12 /\ t = 16 => adapter.result = Ok(adapter.plaintext)

\* C21: when decrypt is called on inputs of the right lengths of which one
\* is not the right one, be it the ciphertext, the tag, the key or the
\* nonce, it returns DecryptionFailed, and the error value is the same
\* whichever of them was altered.
C21_OpaqueFailure ==
    (adapter /= None /\ adapter.op = "decrypt_altered") =>
        /\ \A c \in DOMAIN adapter.results :
               ~adapter.results[c].ok /\ adapter.results[c].kind = "DecryptionFailed"
        /\ \A c, d \in DOMAIN adapter.results : adapter.results[c] = adapter.results[d]

\* Decrypt has failed four times on a sealed text of two bytes, once for
\* each of ciphertext, tag, key and nonce altered in its last bit.
C21_Witness ==
    /\ adapter /= None
    /\ adapter.op = "decrypt_altered"
    /\ DOMAIN adapter.results = Components
    /\ Len(adapter.plaintext) = 2
    /\ adapter.bit = 7
    /\ \A c \in Components : ~adapter.results[c].ok

\* The GCM-SIV adapter has been given a key, a nonce and a tag that are all
\* of wrong length, and has reported the key.
C20_Witness ==
    /\ adapter /= None
    /\ adapter.op = "decrypt"
    /\ adapter.alg = "Aes256GcmSiv"
    /\ Len(adapter.key) = 31
    /\ Len(adapter.nonce) = 16
    /\ Len(adapter.tag) = 12
    /\ adapter.result = Err("InvalidKeySize", 31, "")

-----------------------------------------------------------------------------
(* violet-client: the key service as the daemon's handler sees it.  Keys   *)
(* travel as hex text: a sequence of digits 0..15, BADHEX being a          *)
(* character that is no hex digit.                                         *)

MaxConns == 2
MaxLines == 2

Some(v) == [some |-> v]

BADHEX == 16

HexEncode(bytes) ==
    [i \in 1..(2 * Len(bytes)) |->
        IF i % 2 = 1 THEN bytes[(i + 1) \div 2] \div 16 ELSE bytes[i \div 2] % 16]

\* Key::as_bytes
as_bytes(key) ==
    IF Len(key.key) % 2 /= 0 THEN Err("FromHexError", Len(key.key), "OddLength")
    ELSE IF \E i \in 1..Len(key.key) : key.key[i] > 15
         THEN Err("FromHexError", 0, "InvalidHexCharacter")
    ELSE Ok([i \in 1..(Len(key.key) \div 2) |-> key.key[2 * i - 1] * 16 + key.key[2 * i]])

\* How one HTTP exchange with the key service can end.
ServiceOutcomes == {"served", "unreachable", "status"}

ServerUrl == "http://localhost:8080"

\* KeysClient::new
KeysClient_new(base_url) ==
    IF base_url = ServerUrl THEN Ok(base_url) ELSE Err("UrlParseError", 0, base_url)

\* KeysClient::get_key
get_key(store, uuid, outcome) ==
    CASE outcome = "unreachable" -> Err("RequestFailed", 0, "")
      [] outcome = "status" -> Err("UnexpectedStatus", 500, "")
      [] OTHER -> IF uuid \in DOMAIN store
                  THEN Ok([uuid |-> uuid, key |-> store[uuid]])
                  ELSE Err("KeyNotFound", 0, uuid)

MintedIds == {"m1", "m2", "m3", "m4"}

\* The key the service mints next: a fresh id and fresh key material.
MintedKey(store) ==
    LET n == Cardinality(DOMAIN store \cap MintedIds) + 1
    IN [uuid |-> <<"m1", "m2", "m3", "m4">>[n], key |-> HexEncode(Fill(16 + n, DEK_SIZE))]

\* KeysClient::create_key, with the key store as the service leaves it
create_key(store, outcome) ==
    CASE outcome = "unreachable" -> [res |-> Err("RequestFailed", 0, ""), store |-> store]
      [] outcome = "status" -> [res |-> Err("UnexpectedStatus", 500, ""), store |-> store]
      [] OTHER -> LET key == MintedKey(store)
                  IN [res |-> Ok(key),
                      store |-> [id \in DOMAIN store \cup {key.uuid} |->
                                    IF id = key.uuid THEN key.key ELSE store[id]]]

\* What the key service holds when the daemon starts: a 256-bit key, a
\* 128-bit key and a key whose text is not hex.
StoredKeys ==
    [id \in {"k1", "kshort", "kbad"} |->
        CASE id = "k1" -> HexEncode(Fill(1, DEK_SIZE))
          [] id = "kshort" -> HexEncode(Fill(1, 16))
          [] OTHER -> <<BADHEX, 0>>]

-----------------------------------------------------------------------------
(* violet-daemon/protocol.rs.  A line on the wire is described by what the *)
(* reader makes of it: whether its bytes are valid UTF-8, whether its text *)
(* is empty, a JSON document or something else, and the document.          *)

\* A Response that also carries a result.
Response_error_with_result(message, cause) ==
    [success |-> FALSE, result |-> Some([kind |-> "Decrypt", plaintext |-> <<>>]),
     error |-> Some([message |-> message, cause |-> cause])]

\* Response::error
Response_error(message, cause) ==
    [success |-> FALSE, result |-> None, error |-> Some([message |-> message, cause |-> cause])]

Response_success_encrypt(env) ==
    [success |-> TRUE, result |-> Some([kind |-> "Encrypt", envelope |-> env]), error |-> None]

Response_success_decrypt(plaintext) ==
    [success |-> TRUE, result |-> Some([kind |-> "Decrypt", plaintext |-> plaintext]),
     error |-> None]

\* serde's reading of the "algorithm" member of a request
deserialize_algorithm(s) ==
    CASE s = "AES-256-GCM" -> Ok("Aes256Gcm")
      [] s = "AES-256-GCM-SIV" -> Ok("Aes256GcmSiv")
      [] OTHER -> Err("SerdeJson", 0, "unknown variant")

\* serde's reading of the "operation" member of a request
deserialize_operation(s) ==
    CASE s = "encrypt" -> Ok("Encrypt")
      [] s = "decrypt" -> Ok("Decrypt")
      [] OTHER -> Err("SerdeJson", 0, "unknown variant")

\* serde's reading of an envelope: authTag may be absent and is then empty
deserialize_envelope(w) ==
    [key_id |-> w.key_id, encrypted_data |-> w.encrypted_data,
     encrypted_key |-> w.encrypted_key, iv |-> w.iv, algorithm |-> w.algorithm,
     auth_tag |-> IF w.auth_tag = None THEN <<>> ELSE w.auth_tag.some]

\* serde_json::from_str::<Request>(&line)
from_json(line) ==
    IF line.text = "empty" THEN Err("SerdeJson", 0, "EOF while parsing a value")
    ELSE IF line.text /= "json" THEN Err("SerdeJson", 0, "expected value")
    ELSE IF ~deserialize_operation(line.doc.operation).ok
         THEN deserialize_operation(line.doc.operation)
    ELSE IF line.doc.data = None THEN Err("SerdeJson", 0, "missing field data")
    ELSE LET d == line.doc.data.some
         IN IF d.algorithm /= None /\ ~deserialize_algorithm(d.algorithm.some).ok
            THEN deserialize_algorithm(d.algorithm.some)
            ELSE Ok([operation |-> deserialize_operation(line.doc.operation).val,
                     data |-> [plaintext |-> IF d.plaintext = None THEN <<>>
                                             ELSE d.plaintext.some,
                               key_id |-> d.keyId,
                               algorithm |-> IF d.algorithm = None THEN None
                                             ELSE Some(deserialize_algorithm(d.algorithm.some).val),
                               envelope |-> IF d.envelope = None THEN None
                                            ELSE Some(deserialize_envelope(d.envelope.some))]])

-----------------------------------------------------------------------------
(* violet-daemon/handler.rs.  A handler run is given how its exchange with *)
(* the key service ends and the seed of its random draws; it returns the   *)
(* response, the calls it made to the key service (with what each         *)
(* returned) and the key store as the service leaves it.                   *)

Handled(response, calls, store) == [response |-> response, calls |-> calls, store |-> store]

handle_encrypt(request, server_url, store, outcome, seed) ==
    LET plaintext == B64Decode(request.data.plaintext)
        algorithm == IF request.data.algorithm = None THEN "Aes256Gcm"
                     ELSE request.data.algorithm.some
        client == KeysClient_new(server_url)
        byId == request.data.key_id /= None
        got == IF byId THEN [res |-> get_key(store, request.data.key_id.some, outcome),
                             store |-> store]
               ELSE create_key(store, outcome)
        calls == IF byId THEN <<[op |-> "get_key", uuid |-> request.data.key_id.some,
                                 res |-> got.res]>>
                 ELSE <<[op |-> "create_key", uuid |-> "", res |-> got.res]>>
    IN IF ~plaintext.ok THEN Handled(Response_error("Invalid base64", plaintext), <<>>, store)
       ELSE IF ~client.ok THEN Handled(Response_error("Client error", client), <<>>, store)
       ELSE IF ~got.res.ok
            THEN Handled(Response_error(IF byId THEN "Failed to get key"
                                        ELSE "Failed to create key", got.res),
                         calls, got.store)
       ELSE LET bytes == as_bytes(got.res.val)
            IN IF ~bytes.ok
               THEN Handled(Response_error("Key decode error", bytes), calls, got.store)
               ELSE LET r == EnvelopeEncrypt(algorithm, plaintext.val, bytes.val,
                                             got.res.val.uuid,
                                             RngDraw(seed, 1, DEK_SIZE),
                                             RngDraw(seed, 2, GCM_NONCE_SIZE),
                                             RngDraw(seed, 3, GCM_NONCE_SIZE)).res
                    IN Handled(IF r.ok THEN Response_success_encrypt(r.val)
                               ELSE Response_error("Encryption failed", r),
                               calls, got.store)

handle_decrypt(request, server_url, store, outcome) ==
    IF request.data.envelope = None
    THEN Handled(Response_error("Missing envelope in decrypt request", None), <<>>, store)
    ELSE LET env == request.data.envelope.some
             client == KeysClient_new(server_url)
             key == get_key(store, env.key_id, outcome)
             calls == <<[op |-> "get_key", uuid |-> env.key_id, res |-> key]>>
         IN IF ~client.ok THEN Handled(Response_error("Client error", client), <<>>, store)
            ELSE IF ~key.ok THEN Handled(Response_error("Failed to get key", key), calls, store)
            ELSE LET kek_bytes == as_bytes(key.val)
                     algorithm == from_str(env.algorithm)
                 IN IF ~kek_bytes.ok
                    THEN Handled(Response_error("Key decode error", kek_bytes), calls, store)
                    ELSE IF ~algorithm.ok
                    THEN Handled(Response_error("Invalid algorithm", algorithm), calls, store)
                    ELSE LET r == EnvelopeDecrypt(algorithm.val, env, kek_bytes.val)
                         IN Handled(IF r.ok THEN Response_success_decrypt(B64Encode(r.val))
                                    ELSE Response_error("Decryption failed", r),
                                    calls, store)

\* A handler that resolves the key of an encrypt request before it looks at
\* the plaintext.
handle_key_first(request, server_url, store, outcome, seed) ==
    IF request.operation = "Encrypt"
    THEN LET h == handle_encrypt(request, server_url, store, outcome, seed)
             k == handle_encrypt([request EXCEPT !.data.plaintext = <<>>], server_url, store,
                                 outcome, seed)
         IN IF B64Decode(request.data.plaintext).ok THEN h
            ELSE Handled(h.response, k.calls, k.store)
    ELSE handle_decrypt(request, server_url, store, outcome)

\* A handler that mints a key when the key a request names cannot be fetched.
handle_mint_on_miss(request, server_url, store, outcome, seed) ==
    IF request.operation = "Encrypt"
    THEN LET h == handle_encrypt(request, server_url, store, outcome, seed)
             m == handle_encrypt([request EXCEPT !.data.key_id = None], server_url, store,
                                 "served", seed)
         IN IF request.data.key_id /= None /\ h.calls /= <<>> /\ ~h.calls[1].res.ok
            THEN Handled(m.response, h.calls \o m.calls, m.store)
            ELSE h
    ELSE handle_decrypt(request, server_url, store, outcome)

\* RequestHandler::handle
handle(request, server_url, store, outcome, seed) ==
    IF request.operation = "Encrypt"
    THEN handle_encrypt(request, server_url, store, outcome, seed)
    ELSE handle_decrypt(request, server_url, store, outcome)

-----------------------------------------------------------------------------
(* violet-daemon/server.rs.  conns holds one record per accepted           *)
(* connection: where its task stands (pc), the lines the client has sent   *)
(* and the task has not read (inbuf), whether the client has closed its    *)
(* end (eof), and a log with one entry per line the task has read: the     *)
(* line, the request passed to the handler if one was, the handler's calls *)
(* to the key service, the response built and whether it has been written. *)

Entry(line, request, response) ==
    [line |-> line, request |-> request, calls |-> <<>>, response |-> response,
     written |-> FALSE]

NewConn ==
    [pc |-> "Reading", inbuf |-> <<>>, eof |-> FALSE, log |-> <<>>, closedBy |-> "",
     server_url |-> ServerUrl]

\* The task closes the connection after a response that reports an error.
after_response_close_on_error(response) == IF response.success THEN "Reading" ELSE "Closed"

\* Where the loop of handle_connection goes once a response is written.
after_response(response) == "Reading"

\* reader.read_line(&mut line): the bytes up to the newline, as a String
read_line(line) ==
    IF line.utf8 THEN Ok(line) ELSE Err("io::Error", 0, "stream did not contain valid UTF-8")

\* One turn of the loop of handle_connection up to its first write or to the
\* handler: end of stream ends the task, a read error ends it through `?`, an
\* undecodable line gets an "Invalid request" response, a request goes to the handler.
read_step(conn) ==
    IF conn.inbuf = <<>>
    THEN [conn EXCEPT !.pc = "Closed", !.closedBy = "eof"]
    ELSE LET got == read_line(Head(conn.inbuf))
             rest == Tail(conn.inbuf)
         IN IF ~got.ok
            THEN [conn EXCEPT !.inbuf = rest, !.pc = "Closed", !.closedBy = "read_error",
                              !.log = Append(@, Entry(Head(conn.inbuf), None, None))]
            ELSE LET request == from_json(got.val)
                 IN IF ~request.ok
                    THEN [conn EXCEPT !.inbuf = rest, !.pc = "Writing",
                              !.log = Append(@, Entry(got.val, None,
                                          Some(Response_error("Invalid request", request))))]
                    ELSE [conn EXCEPT !.inbuf = rest, !.pc = "Handling",
                              !.log = Append(@, Entry(got.val, Some(request.val), None))]

LastEntry(conn) == conn.log[Len(conn.log)]

\* The envelopes a client has received in responses on its connection.
ReceivedEnvelopes(conn) ==
    {conn.log[i].response.some.result.some.envelope :
        i \in {j \in 1..Len(conn.log) :
                  /\ conn.log[j].written
                  /\ conn.log[j].response.some.success
                  /\ conn.log[j].response.some.result.some.kind = "Encrypt"}}

\* An envelope as a client writes it into a request.
serialize_envelope(env) == [env EXCEPT !.auth_tag = Some(@)]

TextLine(text) == [utf8 |-> TRUE, text |-> text, doc |-> None]

JsonLine(operation, plaintext, keyId, algorithm, env) ==
    [utf8 |-> TRUE, text |-> "json",
     doc |-> [operation |-> operation,
              data |-> Some([plaintext |-> plaintext, keyId |-> keyId,
                             algorithm |-> algorithm, envelope |-> env])]]

MalformedLines ==
    {[utf8 |-> FALSE, text |-> "garbage", doc |-> None],
     TextLine("empty"),
     TextLine("garbage"),
     JsonLine("rotate", None, None, None, None),
     JsonLine("encrypt", Some(B64Encode(<<72, 105>>)), None, Some("AES-128-GCM"), None)}

RequestLines ==
    {JsonLine("decrypt", None, None, None, None),
     JsonLine("encrypt", Some(B64Encode(<<72, 105>>)), None, None, None),
     JsonLine("encrypt", Some(B64Encode(<<72, 105>>)), Some("k1"), Some("AES-256-GCM-SIV"), None),
     JsonLine("encrypt", Some(<<BADCHAR, 0, 0, 0>>), None, None, None)}

\* The lines a client may send next on its connection.
ClientLines(conn) ==
    MalformedLines \cup RequestLines
    \cup {JsonLine("decrypt", None, None, None, Some(serialize_envelope(e))) :
             e \in ReceivedEnvelopes(conn)}

RECURSIVE LinesSentUpTo(_, _)
LinesSentUpTo(cs, n) ==
    IF n = 0 THEN 0 ELSE Len(cs[n].log) + Len(cs[n].inbuf) + LinesSentUpTo(cs, n - 1)

LinesSent == LinesSentUpTo(conns, Len(conns))

DaemonSeeds == {2}

DaemonInit ==
    /\ CoreInit
    /\ conns = <<>>
    /\ keyStore = StoredKeys
    /\ listening = FALSE
    /\ \E workers \in 1..MaxWorkers : process = ProcessStart(workers)
    /\ adapter = None

\* A task that is inside the handler holds its worker thread until the
\* handler returns: the handler's exchange with the key service is a
\* blocking call (reqwest::blocking) made on that thread.  Everything else
\* the daemon does (accepting, reading, the interrupt task) needs a worker
\* that is not held.
BusyWorkers(cs) == Cardinality({c \in 1..Len(cs) : cs[c].pc = "Handling"})

FreeWorker == BusyWorkers(conns) < process.workers

Running == ~process.exited

\* How a task of handle_connection ended, if it has.
TaskResult(conn) ==
    IF conn.pc /= "Closed" THEN None
    ELSE IF conn.closedBy = "eof" THEN Ok("")
    ELSE Err("io::Error", 0, conn.closedBy)

\* The error of a connection's task ends the accept loop too.
spawn_outcome_propagate(accepting, result) ==
    IF result /= None /\ ~result.ok THEN FALSE ELSE accepting

\* The spawned task logs the error of handle_connection and ends; the
\* accept loop is not told.
spawn_outcome(accepting, result) == accepting

\* DaemonServer::run up to its accept loop
Bind ==
    /\ Running
    /\ ~listening
    /\ ~process.socket_file
    /\ listening' = TRUE
    /\ process' = [process EXCEPT !.socket_file = TRUE]
    /\ UNCHANGED <<conns, keyStore>>
    /\ UNCHANGED <<coreVars, adapter>>

\* listener.accept() and the spawn of the connection's task
Accept ==
    /\ Running
    /\ listening
    /\ FreeWorker
    /\ Len(conns) < MaxConns
    /\ conns' = Append(conns, NewConn)
    /\ UNCHANGED <<keyStore, listening, process>>
    /\ UNCHANGED <<coreVars, adapter>>

ClientSend(c) ==
    /\ Running
    /\ conns[c].pc /= "Closed"
    /\ ~conns[c].eof
    /\ LinesSent < MaxLines
    /\ \E line \in ClientLines(conns[c]) :
           conns' = [conns EXCEPT ![c].inbuf = Append(@, line)]
    /\ UNCHANGED <<keyStore, listening, process>>
    /\ UNCHANGED <<coreVars, adapter>>

ClientClose(c) ==
    /\ Running
    /\ conns[c].pc /= "Closed"
    /\ ~conns[c].eof
    /\ conns' = [conns EXCEPT ![c].eof = TRUE]
    /\ UNCHANGED <<keyStore, listening, process>>
    /\ UNCHANGED <<coreVars, adapter>>

\* The task reads on while a response is still to be written.
awaiting_line_pipelined(conn) == conn.pc \in {"Reading", "Writing"}

\* The task is at reader.read_line: the loop of handle_connection comes back
\* to it only after the writes of the previous turn.
awaiting_line(conn) == conn.pc = "Reading"

ReadLine(c) ==
    /\ Running
    /\ FreeWorker
    /\ awaiting_line(conns[c])
    /\ conns[c].inbuf /= <<>> \/ conns[c].eof
    /\ conns' = [conns EXCEPT ![c] = read_step(@)]
    /\ listening' = spawn_outcome(listening, TaskResult(read_step(conns[c])))
    /\ UNCHANGED <<keyStore, process>>
    /\ UNCHANGED <<coreVars, adapter>>

\* The tasks share one request slot: a task handles the request that was
\* decoded last among those being handled.
request_of_shared(cs, c) ==
    LET handling == {d \in 1..Len(cs) : cs[d].pc = "Handling"}
        last == CHOOSE d \in handling : \A e \in handling : e <= d
    IN LastEntry(cs[last]).request.some

\* The request a task hands to the handler: the one decoded from the line
\* it read from its own stream (`line` and `request` are locals of
\* handle_connection).
request_of(cs, c) == LastEntry(cs[c]).request.some

\* The task gives up the connection when the handler reports a failure.
after_handle_fail_fast(response) == IF response.success THEN "Writing" ELSE "Closed"

\* handler.handle returns a Response, never an error: the loop goes on to
\* serialize and write whatever it returned.
after_handle(response) == "Writing"

Handle(c) ==
    /\ Running
    /\ conns[c].pc = "Handling"
    /\ \E outcome \in ServiceOutcomes, seed \in DaemonSeeds :
        LET h == handle(request_of(conns, c), conns[c].server_url,
                        keyStore, outcome, seed)
        IN /\ conns' = [conns EXCEPT ![c].pc = after_handle(h.response),
                                     ![c].log[Len(conns[c].log)].calls = h.calls,
                                     ![c].log[Len(conns[c].log)].response = Some(h.response)]
           /\ keyStore' = h.store
    /\ UNCHANGED <<listening, process>>
    /\ UNCHANGED <<coreVars, adapter>>

\* writer.write_all of the response and of the newline, then line.clear()
Write(c) ==
    /\ Running
    /\ conns[c].pc = "Writing"
    /\ conns' = [conns EXCEPT ![c].pc = after_response(LastEntry(conns[c]).response.some),
                              ![c].log[Len(conns[c].log)].written = TRUE]
    /\ UNCHANGED <<keyStore, listening, process>>
    /\ UNCHANGED <<coreVars, adapter>>

\* writer.write_all fails because the client is gone; `?` ends the task
WriteFail(c) ==
    /\ Running
    /\ conns[c].pc = "Writing"
    /\ conns[c].eof
    /\ conns' = [conns EXCEPT ![c].pc = "Closed", ![c].closedBy = "io_error"]
    /\ listening' = spawn_outcome(listening, Err("io::Error", 0, "io_error"))
    /\ UNCHANGED <<keyStore, process>>
    /\ UNCHANGED <<coreVars, adapter>>

DaemonNext ==
    \/ Bind
    \/ Accept
    \/ \E c \in 1..Len(conns) : ClientSend(c)
    \/ \E c \in 1..Len(conns) : ClientClose(c)
    \/ \E c \in 1..Len(conns) : ReadLine(c)
    \/ \E c \in 1..Len(conns) : Handle(c)
    \/ \E c \in 1..Len(conns) : Write(c)
    \/ \E c \in 1..Len(conns) : WriteFail(c)

DaemonSpec == DaemonInit /\ [][DaemonNext]_vars

-----------------------------------------------------------------------------
(* The daemon with its interrupt task: run spawns, before the accept loop, *)
(* a task that waits for the interrupt signal, removes the socket file and *)
(* exits the process.                                                      *)

\* The interrupt signal is delivered to the listening daemon.
Interrupt ==
    /\ Running
    /\ listening
    /\ ~process.interrupt
    /\ process' = [process EXCEPT !.interrupt = TRUE]
    /\ UNCHANGED <<conns, keyStore, listening>>
    /\ UNCHANGED <<coreVars, adapter>>

\* The interrupt task, woken by the signal, runs on a worker thread:
\* remove_file of the socket path, then std::process::exit(0).  The
\* connections are left as they stand.
Shutdown ==
    /\ Running
    /\ process.interrupt
    /\ FreeWorker
    /\ process' = [process EXCEPT !.socket_file = FALSE, !.exited = TRUE]
    /\ listening' = FALSE
    /\ UNCHANGED <<conns, keyStore>>
    /\ UNCHANGED <<coreVars, adapter>>

ShutdownNext == DaemonNext \/ Interrupt \/ Shutdown

ShutdownSpec == DaemonInit /\ [][ShutdownNext]_vars

-----------------------------------------------------------------------------
(* One request on one connection, over every kind of request the handler  *)
(* tells apart: the connection is accepted and its client has sent one     *)
(* line; the task reads it, handles it and writes the response.            *)

HandlerKeyIds == {"k1", "kshort", "kbad", "nokey"}

HandlerPlaintext == <<72, 105>>

\* The envelope a client holds after an encrypt under key k1.
SealedBy(algorithm) ==
    EnvelopeEncrypt(algorithm, HandlerPlaintext, as_bytes([key |-> StoredKeys["k1"]]).val, "k1",
                    RngDraw(2, 1, DEK_SIZE), RngDraw(2, 2, GCM_NONCE_SIZE),
                    RngDraw(2, 3, GCM_NONCE_SIZE)).res.val

\* Envelopes a decrypt request may carry: sealed ones, the same naming
\* another key, and ones altered in one field.
HandlerEnvelopes ==
    LET sealed == {SealedBy(a) : a \in Algorithms}
        rekeyed == {[e EXCEPT !.key_id = id] : e \in sealed, id \in HandlerKeyIds}
        altered == {[e EXCEPT !.algorithm = "INVALID"] : e \in sealed}
                   \cup {[e EXCEPT !.auth_tag = B64Encode(FlipAt(B64Decode(@).val, 1, 0))] :
                           e \in sealed}
                   \cup {[e EXCEPT !.encrypted_data = <<0, PAD, PAD, PAD>>] : e \in sealed}
                   \cup {[e EXCEPT !.encrypted_key = B64Encode(Fill(7, 5))] : e \in sealed}
    IN {serialize_envelope(e) : e \in rekeyed \cup altered}
       \cup {[serialize_envelope(e) EXCEPT !.auth_tag = None] : e \in sealed}

EncryptLines ==
    {JsonLine("encrypt", plaintext, keyId, algorithm, None) :
        plaintext \in {None, Some(B64Encode(HandlerPlaintext)), Some(B64Encode(<<>>)),
                       Some(<<BADCHAR, 0, 0, 0>>)},
        keyId \in {None} \cup {Some(id) : id \in HandlerKeyIds},
        algorithm \in {None, Some("AES-256-GCM"), Some("AES-256-GCM-SIV")}}

DecryptLines ==
    {JsonLine("decrypt", None, None, None, env) :
        env \in {None} \cup {Some(e) : e \in HandlerEnvelopes}}

HandlerLines == EncryptLines \cup DecryptLines \cup MalformedLines

\* The daemon's --server-url: the default, or a text that is no URL.
ServerUrls == {ServerUrl, "not a url"}

HandlerInit ==
    /\ CoreInit
    /\ \E line \in HandlerLines, url \in ServerUrls :
           conns = <<[NewConn EXCEPT !.inbuf = <<line>>, !.server_url = url]>>
    /\ keyStore = StoredKeys
    /\ listening = TRUE
    /\ process = [ProcessStart(MaxWorkers) EXCEPT !.socket_file = TRUE]
    /\ adapter = None

HandlerNext == ReadLine(1) \/ Handle(1) \/ Write(1)

HandlerSpec == HandlerInit /\ [][HandlerNext]_vars

-----------------------------------------------------------------------------
(* Properties of the daemon *)

Conns == 1..Len(conns)

\* The task has finished with the i-th line it read and no write failed on it:
\* it went on to read again, or ended at the client's end of stream.
Finished(conn, i) ==
    \/ i < Len(conn.log)
    \/ conn.pc = "Reading"
    \/ conn.pc = "Closed" /\ conn.closedBy = "eof"

\* The connection is open for further lines after its last response.
OpenAfter(conn) ==
    \/ conn.pc \in {"Reading", "Handling", "Writing"}
    \/ conn.pc = "Closed" /\ conn.closedBy \in {"eof", "io_error"}

MissingEnvelope(line) ==
    /\ line.utf8
    /\ line.text = "json"
    /\ line.doc.operation = "decrypt"
    /\ line.doc.data /= None
    /\ line.doc.data.some.algorithm = None
    /\ line.doc.data.some.envelope = None

\* The key service answered the entry's one call with a 256-bit key.
GotKek(e) ==
    /\ Len(e.calls) = 1
    /\ e.calls[1].res.ok
    /\ as_bytes(e.calls[1].res.val).ok
    /\ Len(as_bytes(e.calls[1].res.val).val) = DEK_SIZE

\* A valid request: an encrypt request with a base64 plaintext and a known
\* algorithm (or none), or a decrypt request for an envelope the daemon
\* returned earlier on this connection.
ValidRequest(conn, e) ==
    /\ e.line.utf8
    /\ e.line.text = "json"
    /\ e.line.doc.data /= None
    /\ LET d == e.line.doc.data.some
       IN \/ /\ e.line.doc.operation = "encrypt"
             /\ d.plaintext /= None
             /\ B64WellFormed(d.plaintext.some)
             /\ d.algorithm \in {None, Some("AES-256-GCM"), Some("AES-256-GCM-SIV")}
          \/ /\ e.line.doc.operation = "decrypt"
             /\ d.algorithm = None
             /\ d.envelope \in {Some(serialize_envelope(env)) : env \in ReceivedEnvelopes(conn)}

\* C9: a decrypt request without an envelope is passed to the handler and
\* gets the response success=false with the error "Missing envelope in decrypt
\* request" and no result; that request does not end the task (which stops
\* only at the client's end of stream or on a failed write), so the response
\* is written and the task reads on; and every later valid request on the same connection is passed to
\* the handler and, the key service having returned its 256-bit key, is
\* answered with success.
C9_MissingEnvelope ==
    \A c \in Conns : \A i \in 1..Len(conns[c].log) :
        LET conn == conns[c]
            e == conn.log[i]
        IN MissingEnvelope(e.line)
            => /\ e.request /= None
               /\ e.response /= None
                    => e.response.some =
                          [success |-> FALSE, result |-> None,
                           error |-> Some([message |-> "Missing envelope in decrypt request",
                                           cause |-> None])]
               /\ Finished(conn, i) => e.written
               /\ i = Len(conn.log) => OpenAfter(conn)
               /\ \A j \in (i + 1)..Len(conn.log) :
                     LET f == conn.log[j]
                     IN ValidRequest(conn, f)
                         => /\ f.request /= None
                            /\ Finished(conn, j) => f.written
                            /\ (f.response /= None /\ GotKek(f))
                                  => /\ f.response.some.success
                                     /\ f.response.some.result /= None
                                     /\ f.response.some.error = None

C9_Witness ==
    \E c \in Conns :
        /\ Len(conns[c].log) = 2
        /\ MissingEnvelope(conns[c].log[1].line)
        /\ conns[c].log[1].written
        /\ ~conns[c].log[1].response.some.success
        /\ ValidRequest(conns[c], conns[c].log[2])
        /\ conns[c].log[2].written
        /\ conns[c].log[2].response.some.success
        /\ conns[c].pc = "Reading"

\* The ways a line can fail to be a decodable Request.
MalformedKind(line) ==
    CASE ~line.utf8 -> "not_text"
      [] line.utf8 /\ line.text = "empty" -> "empty_line"
      [] line.utf8 /\ line.text = "garbage" -> "invalid_json"
      [] line.utf8 /\ line.text = "json"
            /\ line.doc.operation \notin {"encrypt", "decrypt"} -> "unknown_operation"
      [] line.utf8 /\ line.text = "json"
            /\ line.doc.operation \in {"encrypt", "decrypt"}
            /\ line.doc.data /= None
            /\ line.doc.data.some.algorithm
                   \notin {None, Some("AES-256-GCM"), Some("AES-256-GCM-SIV")}
            -> "unknown_algorithm"
      [] OTHER -> "decodable"

\* Every line of one of the kinds, once read, is not passed to the handler,
\* gets one "Invalid request" error response (written unless the write
\* fails), and does not end the connection's task.
MalformedAnswered(kinds) ==
    \A c \in Conns : \A i \in 1..Len(conns[c].log) :
        LET conn == conns[c]
            e == conn.log[i]
        IN MalformedKind(e.line) \in kinds
            => /\ e.request = None
               /\ e.calls = <<>>
               /\ e.response /= None
               /\ ~e.response.some.success
               /\ e.response.some.result = None
               /\ e.response.some.error /= None
               /\ Finished(conn, i) => e.written
               /\ i = Len(conn.log) => OpenAfter(conn)

\* C10: every malformed line read on a connection (invalid JSON, unknown
\* operation, unknown algorithm string, empty line, bytes that are not valid
\* text) produces one error response line, is never passed to the
\* RequestHandler, and leaves the connection open for further lines.
C10_MalformedLines ==
    MalformedAnswered({"invalid_json", "unknown_operation", "unknown_algorithm",
                       "empty_line", "not_text"})

\* The same for the malformed lines that are valid text.
MalformedTextLines ==
    MalformedAnswered({"invalid_json", "unknown_operation", "unknown_algorithm",
                       "empty_line"})

\* A malformed line of valid text was answered and a later line was read.
MalformedTextWitness ==
    \E c \in Conns :
        /\ Len(conns[c].log) = 2
        /\ MalformedKind(conns[c].log[1].line) = "unknown_algorithm"
        /\ conns[c].log[1].written
        /\ conns[c].log[2].written
        /\ conns[c].log[2].response.some.success

\* A line that is not valid text has ended the task without a response.
C10_NotTextWitness ==
    \E c \in Conns :
        /\ Len(conns[c].log) = 1
        /\ MalformedKind(conns[c].log[1].line) = "not_text"
        /\ conns[c].log[1].response = None
        /\ conns[c].pc = "Closed"
        /\ conns[c].closedBy = "read_error"
        /\ ~conns[c].eof

-----------------------------------------------------------------------------
(* Encrypt/decrypt cycles on simultaneous connections: each client sends   *)
(* an encrypt request for a plaintext of its own and then, having read the *)
(* response, a decrypt request for the envelope it was given.              *)

\* The plaintext of the client of connection c.
CyclePlaintext(c) == <<64 + c, 33>>

\* The next line of the client of connection c, if it has one to send.
CycleLines(conn, c) ==
    IF conn.log = <<>>
    THEN {JsonLine("encrypt", Some(B64Encode(CyclePlaintext(c))), keyId, algorithm, None) :
             keyId \in {None, Some("k1")}, algorithm \in {None, Some("AES-256-GCM-SIV")}}
    ELSE IF Len(conn.log) = 1
    THEN {JsonLine("decrypt", None, None, None, Some(serialize_envelope(e))) :
             e \in ReceivedEnvelopes(conn)}
    ELSE {}

CycleSend(c) ==
    /\ Running
    /\ conns[c].pc = "Reading"
    /\ conns[c].inbuf = <<>>
    /\ \E line \in CycleLines(conns[c], c) :
           conns' = [conns EXCEPT ![c].inbuf = Append(@, line)]
    /\ UNCHANGED <<keyStore, listening, process>>
    /\ UNCHANGED <<coreVars, adapter>>

CycleInit ==
    /\ CoreInit
    /\ conns = <<>>
    /\ keyStore = StoredKeys
    /\ listening = TRUE
    /\ \E workers \in 1..MaxWorkers :
           process = [ProcessStart(workers) EXCEPT !.socket_file = TRUE]
    /\ adapter = None

CycleNext ==
    \/ Accept
    \/ \E c \in 1..Len(conns) : CycleSend(c)
    \/ \E c \in 1..Len(conns) : ReadLine(c)
    \/ \E c \in 1..Len(conns) : Handle(c)
    \/ \E c \in 1..Len(conns) : Write(c)

CycleSpec == CycleInit /\ [][CycleNext]_vars

-----------------------------------------------------------------------------
(* Properties of the handler *)

\* Every response the daemon has built, with the log entry it belongs to.
Built(conn) == {i \in 1..Len(conn.log) : conn.log[i].response /= None}

ResponseOf(conn, i) == conn.log[i].response.some

WellFormedResponse(r) ==
    /\ r.success => r.result /= None /\ r.error = None
    /\ ~r.success => r.error /= None /\ r.result = None

CarriesItsResult(request, r) ==
    r.success =>
        /\ request /= None
        /\ request.some.operation = "Encrypt" =>
               r.result.some.kind = "Encrypt" /\ "envelope" \in DOMAIN r.result.some
        /\ request.some.operation = "Decrypt" =>
               r.result.some.kind = "Decrypt" /\ "plaintext" \in DOMAIN r.result.some

\* C11: every response the daemon builds has a result and no error when
\* success is true, an error and no result when success is false; a
\* successful encrypt carries an envelope, a successful decrypt a plaintext.
C11_ResponseInvariant ==
    \A c \in Conns : \A i \in Built(conns[c]) :
        /\ WellFormedResponse(ResponseOf(conns[c], i))
        /\ CarriesItsResult(conns[c].log[i].request, ResponseOf(conns[c], i))

\* A decrypt has succeeded and its response is written.
C11_Witness ==
    \E c \in Conns : \E i \in Built(conns[c]) :
        /\ conns[c].log[i].written
        /\ ResponseOf(conns[c], i).success
        /\ ResponseOf(conns[c], i).result.some.kind = "Decrypt"
        /\ ResponseOf(conns[c], i).result.some.plaintext = B64Encode(HandlerPlaintext)

\* Log entries whose line was decoded into a request and handled.
HandledEntries(conn) == {i \in Built(conn) : conn.log[i].request /= None}

\* The key service did not deliver a key: not found, transport failure or
\* unexpected status.
KeyServiceFailed(entry) == entry.calls /= <<>> /\ ~entry.calls[1].res.ok

\* The key service delivered a key whose text is not hex, or whose bytes
\* are not a 256-bit key.
KeyUnusable(entry) ==
    /\ entry.calls /= <<>>
    /\ entry.calls[1].res.ok
    /\ LET bytes == as_bytes(entry.calls[1].res.val)
       IN ~bytes.ok \/ Len(bytes.val) /= DEK_SIZE

\* A decrypt request whose envelope is not one that encrypt produced under
\* the key it names.
EnvelopeUnsound(entry) ==
    /\ entry.request.some.operation = "Decrypt"
    /\ entry.request.some.data.envelope /= None
    /\ entry.request.some.data.envelope.some \notin {SealedBy(a) : a \in Algorithms}

ErrorTexts ==
    {"Invalid base64", "Client error", "Failed to get key", "Failed to create key",
     "Key decode error", "Encryption failed", "Missing envelope in decrypt request",
     "Invalid algorithm", "Decryption failed"}

TextualError(r, texts) ==
    /\ ~r.success
    /\ r.result = None
    /\ r.error /= None
    /\ r.error.some.message \in texts

\* C13: a request for which the key service fails, delivers a key that is
\* not hex or not 256 bits long, or whose envelope is not a sound one, is
\* answered with success=false and an error text; whatever the handler
\* returns, the task writes it and goes back to reading, and the process
\* keeps running.
C13_FailuresBecomeResponses ==
    /\ Running
    /\ \A c \in Conns : \A i \in HandledEntries(conns[c]) :
        LET entry == conns[c].log[i]
            r == entry.response.some
        IN /\ KeyServiceFailed(entry) =>
                  TextualError(r, {"Failed to get key", "Failed to create key"})
           /\ KeyUnusable(entry) =>
                  TextualError(r, {"Key decode error", "Encryption failed", "Decryption failed"})
           /\ EnvelopeUnsound(entry) => TextualError(r, ErrorTexts)
           /\ ~r.success => TextualError(r, ErrorTexts)
           /\ r.error /= None /\ r.error.some.cause /= None => r.error.some.cause.kind /= "panic"
           /\ ~entry.written /\ i = Len(conns[c].log) => conns[c].pc = "Writing"
           /\ entry.written /\ i = Len(conns[c].log) /\ ~conns[c].eof => conns[c].pc = "Reading"

\* A decrypt request naming a 128-bit key has been answered with an error
\* and its task is reading again.
C13_Witness ==
    \E c \in Conns : \E i \in HandledEntries(conns[c]) :
        /\ conns[c].log[i].request.some.operation = "Decrypt"
        /\ KeyUnusable(conns[c].log[i])
        /\ conns[c].log[i].calls[1].uuid = "kshort"
        /\ conns[c].log[i].written
        /\ conns[c].pc = "Reading"

\* An encrypt request line whose data has no plaintext member.
EncryptWithoutPlaintext(entry) ==
    /\ entry.line.text = "json"
    /\ entry.line.doc.operation = "encrypt"
    /\ entry.line.doc.data /= None
    /\ entry.line.doc.data.some.plaintext = None

\* C17: an encrypt request without a plaintext field is answered with an
\* error, never with a success that carries an envelope.
C17_PlaintextRequired ==
    \A c \in Conns : \A i \in Built(conns[c]) :
        EncryptWithoutPlaintext(conns[c].log[i]) =>
            TextualError(ResponseOf(conns[c], i), ErrorTexts \cup {"Invalid request"})

\* An encrypt request without a plaintext field has been answered with
\* success and the envelope of the empty plaintext.
C17_EnvelopeOfNothing ==
    \E c \in Conns : \E i \in Built(conns[c]) :
        /\ EncryptWithoutPlaintext(conns[c].log[i])
        /\ conns[c].log[i].written
        /\ ResponseOf(conns[c], i).success
        /\ ResponseOf(conns[c], i).result.some.kind = "Encrypt"
        /\ B64Decode(ResponseOf(conns[c], i).result.some.envelope.encrypted_data) = Ok(<<>>)

\* The keys the key service has minted since the daemon started.
Minted == DOMAIN keyStore \ DOMAIN StoredKeys

\* The calls of one kind made to the key service, each named by
\* connection, log entry and position.
CallsMade(op) ==
    {<<c, i, j>> \in {<<c, i, j>> \in Conns \X (1..MaxLines) \X (1..2) :
                         /\ i <= Len(conns[c].log)
                         /\ j <= Len(conns[c].log[i].calls)} :
        conns[c].log[i].calls[j].op = op}

\* C18: an encrypt request that names a key makes the handler fetch that
\* key and nothing else, and a failed fetch is answered with an error; a
\* request that names none makes it ask once for a new key; the keys minted
\* are those of the served creations and no more; the envelope of a success
\* names the key the service returned, and it is under that key's bytes
\* that the wrapped DEK opens.
C18_KekResolution ==
    /\ Cardinality(Minted) =
           Cardinality({t \in CallsMade("create_key") :
                           conns[t[1]].log[t[2]].calls[t[3]].res.ok})
    /\ \A c \in Conns : \A i \in HandledEntries(conns[c]) :
        LET entry == conns[c].log[i]
            data == entry.request.some.data
            r == entry.response.some
        IN entry.request.some.operation = "Encrypt" =>
            /\ Len(entry.calls) <= 1
            /\ data.key_id /= None =>
                   /\ \A j \in 1..Len(entry.calls) :
                          entry.calls[j].op = "get_key" /\ entry.calls[j].uuid = data.key_id.some
                   /\ KeyServiceFailed(entry) => TextualError(r, {"Failed to get key"})
                   /\ r.success => r.result.some.envelope.key_id = data.key_id.some
            /\ data.key_id = None =>
                   /\ \A j \in 1..Len(entry.calls) : entry.calls[j].op = "create_key"
                   /\ r.success => r.result.some.envelope.key_id \in Minted
            /\ r.success =>
                   /\ entry.calls /= <<>> /\ entry.calls[1].res.ok
                   /\ r.result.some.envelope.key_id = entry.calls[1].res.val.uuid
                   /\ UnwrapOf(r.result.some.envelope, as_bytes(entry.calls[1].res.val).val).ok

\* An encrypt request naming a key the service does not hold has been
\* answered with an error, and no key has been minted.
C18_Witness ==
    \E c \in Conns : \E i \in HandledEntries(conns[c]) :
        /\ conns[c].log[i].request.some.operation = "Encrypt"
        /\ conns[c].log[i].request.some.data.key_id = Some("nokey")
        /\ Len(conns[c].log[i].calls) = 1
        /\ conns[c].log[i].calls[1].res = Err("KeyNotFound", 0, "nokey")
        /\ conns[c].log[i].written
        /\ ~ResponseOf(conns[c], i).success
        /\ Minted = {}

\* A request the handler turns down on its own: an encrypt request whose
\* plaintext is not base64, a decrypt request that carries no envelope.
FailsLocalValidation(request) ==
    \/ request.operation = "Encrypt" /\ ~B64Decode(request.data.plaintext).ok
    \/ request.operation = "Decrypt" /\ request.data.envelope = None

\* The handler returns for the request of connection c in this step.
HandlerReturns(c) == conns[c].pc = "Handling" /\ conns'[c].pc /= "Handling"

\* C24: when the handler returns for a request that fails its local
\* validation, it has made no call to the key service, the key service
\* holds what it held, and the response is the error of that validation.
C24_NoCallOnLocalFailure ==
    [][\A c \in Conns :
          (HandlerReturns(c) /\ FailsLocalValidation(request_of(conns, c))) =>
              /\ keyStore' = keyStore
              /\ LastEntry(conns'[c]).calls = <<>>
              /\ TextualError(LastEntry(conns'[c]).response.some,
                              {"Invalid base64", "Missing envelope in decrypt request"})]_vars

\* An encrypt request that names no key and whose plaintext is not base64
\* has been answered with an error; no call was made and no key minted.
C24_Witness ==
    \E c \in Conns : \E i \in HandledEntries(conns[c]) :
        /\ conns[c].log[i].request.some.operation = "Encrypt"
        /\ conns[c].log[i].request.some.data.key_id = None
        /\ ~B64Decode(conns[c].log[i].request.some.data.plaintext).ok
        /\ conns[c].log[i].written
        /\ conns[c].log[i].calls = <<>>
        /\ ResponseOf(conns[c], i).error.some.message = "Invalid base64"
        /\ Minted = {}

\* A request line whose envelope has no authTag member.
TagAbsent(line) ==
    /\ line.text = "json"
    /\ line.doc.data /= None
    /\ line.doc.data.some.envelope /= None
    /\ line.doc.data.some.envelope.some.auth_tag = None

\* The KEK the key service holds for the sealed envelopes, and another
\* 256-bit key.
SealingKek == as_bytes([key |-> StoredKeys["k1"]]).val

ForeignKek == Fill(2, DEK_SIZE)

\* C25: a request whose envelope comes without authTag deserializes, with
\* auth_tag the empty string.  No encryptor opens that envelope under any
\* key; under the KEK that sealed it the DEK is unwrapped and the result is
\* InvalidTagSize(0).  The daemon answers the request with an error, and
\* once it has fetched the key with "Decryption failed" caused by
\* InvalidTagSize(0).
C25_AbsentTagNeverOpens ==
    \A c \in Conns : \A i \in Built(conns[c]) :
        TagAbsent(conns[c].log[i].line) =>
            /\ conns[c].log[i].request /= None
            /\ LET env == conns[c].log[i].request.some.data.envelope.some
                   r == ResponseOf(conns[c], i)
                   calls == conns[c].log[i].calls
               IN /\ env.auth_tag = <<>>
                  /\ \A a \in Algorithms :
                        /\ UnwrapOf(env, SealingKek).ok
                        /\ EnvelopeDecrypt(a, env, SealingKek) = Err("InvalidTagSize", 0, "")
                        /\ ~EnvelopeDecrypt(a, env, ForeignKek).ok
                  /\ ~r.success
                  /\ (calls /= <<>> /\ calls[1].res.ok) =>
                        r = Response_error("Decryption failed", Err("InvalidTagSize", 0, ""))

\* The daemon has answered a decrypt request whose AES-256-GCM-SIV envelope
\* came without authTag: the key was fetched, the answer is InvalidTagSize(0).
C25_Witness ==
    \E c \in Conns : \E i \in Built(conns[c]) :
        /\ TagAbsent(conns[c].log[i].line)
        /\ conns[c].log[i].request.some.data.envelope.some.algorithm = "AES-256-GCM-SIV"
        /\ conns[c].log[i].written
        /\ conns[c].log[i].calls /= <<>>
        /\ conns[c].log[i].calls[1].res.ok
        /\ ResponseOf(conns[c], i).error.some.cause = Err("InvalidTagSize", 0, "")

-----------------------------------------------------------------------------
(* Properties of the connection loop *)

Unwritten(conn) == {i \in 1..Len(conn.log) : ~conn.log[i].written}

\* The task ended through `?` on an io::Error of read_line or write_all.
EndedByIoError(conn) == conn.pc = "Closed" /\ conn.closedBy \in {"read_error", "io_error"}

\* C12: on one connection, when a line has been read the responses to all
\* lines before it are written, so responses are written in the order of
\* their lines and at most one line is without its response; a task that is
\* back at reading, or has ended at end of stream, has written one response
\* per line read; a task that ended on an I/O error lacks at most the last.
C12_LineSynchronous ==
    \A c \in Conns :
        LET conn == conns[c]
        IN /\ \A i \in 1..(Len(conn.log) - 1) : conn.log[i].written
           /\ Cardinality(Unwritten(conn)) <= 1
           /\ conn.pc \in {"Handling", "Writing"} => Unwritten(conn) = {Len(conn.log)}
           /\ ~EndedByIoError(conn) /\ conn.pc \in {"Reading", "Closed"} =>
                  Unwritten(conn) = {}

\* A connection has had two lines read and answered, one after the other,
\* and its task is back at reading.
C12_Witness ==
    \E c \in Conns :
        /\ Len(conns[c].log) = 2
        /\ \A i \in 1..2 : conns[c].log[i].request /= None /\ conns[c].log[i].written
        /\ conns[c].pc = "Reading"

\* Connection c's task ends in this step.
TaskEnds(c) == conns[c].pc /= "Closed" /\ conns'[c].pc = "Closed"

\* The step that ends c's task leaves the listener, the process and every
\* other connection as they were, and holds no worker thread afterwards.
OnlyItsTask(c) ==
    /\ listening' = listening
    /\ process' = process
    /\ Len(conns') = Len(conns)
    /\ \A d \in Conns \ {c} : conns'[d] = conns[d]
    /\ BusyWorkers(conns') <= BusyWorkers(conns)

\* C14: when a connection's task ends, at end of stream or on an I/O error
\* of its socket, nothing but that connection changes: the listener goes on
\* accepting and the other connections stand where they stood.
C14_FaultIsolation == [][\A c \in Conns : TaskEnds(c) => OnlyItsTask(c)]_vars

\* One connection's task has ended on an I/O error; the listener is still
\* accepting and another connection has had its request answered and is
\* being read again.
C14_Witness ==
    \E c, d \in Conns :
        /\ c /= d
        /\ EndedByIoError(conns[c])
        /\ listening
        /\ conns[d].pc = "Reading"
        /\ Len(conns[d].log) = 1
        /\ conns[d].log[1].written

-----------------------------------------------------------------------------
(* Properties of concurrent connections *)

\* The bytes of the key the store holds under an id.
StoredKek(id) == as_bytes([key |-> keyStore[id]]).val

\* C15: on each of the simultaneous connections, the envelope returned for
\* the client's encrypt request opens, under the key it names, to that
\* client's plaintext, and the decrypt request for it is answered, whenever
\* the key service delivers the key, with that client's plaintext and no
\* other.
C15_OwnPlaintext ==
    \A c \in Conns : \A i \in HandledEntries(conns[c]) :
        LET entry == conns[c].log[i]
            r == entry.response.some
        IN /\ r.success /\ entry.request.some.operation = "Encrypt" =>
                  /\ r.result.some.kind = "Encrypt"
                  /\ EnvelopeDecrypt(from_str(r.result.some.envelope.algorithm).val,
                                     r.result.some.envelope,
                                     StoredKek(r.result.some.envelope.key_id))
                         = Ok(CyclePlaintext(c))
           /\ entry.request.some.operation = "Decrypt" =>
                  /\ r.success => r.result.some = [kind |-> "Decrypt",
                                                   plaintext |-> B64Encode(CyclePlaintext(c))]
                  /\ entry.calls[1].res.ok => r.success

\* Two connections have each completed their cycle under the same key.
C15_Witness ==
    /\ Len(conns) >= 2
    /\ \A c \in 1..2 :
        /\ Len(conns[c].log) = 2
        /\ conns[c].log[1].response.some.success
        /\ conns[c].log[1].response.some.result.some.envelope.key_id = "k1"
        /\ conns[c].log[2].written
        /\ conns[c].log[2].response.some.success
        /\ conns[c].log[2].response.some.result.some.plaintext = B64Encode(CyclePlaintext(c))

\* The task of connection c is inside the handler, in a call to the key
\* service that has not returned.
WaitsOnKeyService(c) ==
    /\ conns[c].pc = "Handling"
    /\ handle(request_of(conns, c), conns[c].server_url, keyStore, "served", 2).calls /= <<>>

\* The client of connection c has sent no complete line that is unread and
\* keeps its end open: the task is suspended in read_line.
StalledMidLine(c) == conns[c].pc = "Reading" /\ conns[c].inbuf = <<>> /\ ~conns[c].eof

\* Connection d has a line the task could read.
LinePending(d) == conns[d].pc = "Reading" /\ conns[d].inbuf /= <<>>

\* The runtime can run the accept loop and the tasks that are ready.
CanProceed == Running /\ FreeWorker

\* C16: while a connection waits on the key service or its client has
\* stalled in the middle of a line, the listener can accept and every other
\* connection that has a line pending can be read.
C16_ProgressIndependence ==
    \A c \in Conns :
        (WaitsOnKeyService(c) \/ StalledMidLine(c)) =>
            /\ listening => CanProceed
            /\ \A d \in Conns \ {c} : LinePending(d) => CanProceed

\* Every worker thread is held by a task waiting on the key service while
\* the listener is bound and another connection has a line to be read.
C16_BlockedWitness ==
    \E c, d \in Conns :
        /\ c /= d
        /\ WaitsOnKeyService(c)
        /\ LinePending(d)
        /\ listening
        /\ ~FreeWorker

-----------------------------------------------------------------------------
(* Properties of shutdown *)

\* C19: once the interrupt signal has arrived, the exit can be carried out
\* at once, whatever the connections are doing: nothing that is in flight
\* delays it.
C19_ImmediateShutdown == (process.interrupt /\ Running) => CanProceed

\* The interrupt has arrived and the process is still running, but every
\* worker thread is held by a task waiting on the key service.
C19_DelayedWitness ==
    /\ process.interrupt
    /\ Running
    /\ process.socket_file
    /\ ~FreeWorker
    /\ \A c \in Conns : conns[c].pc = "Handling" => WaitsOnKeyService(c)

====
